---- MODULE Spec2Model ----
(***************************************************************************)
(* Model of the static-content rollout of deploy.py: the working directory *)
(* is one file tree (a set of nodes), the controller main() is a program   *)
(* counter over its stages, and the HTTP server is the listener plus its   *)
(* serve thread.  Names are sequences of characters so that                *)
(* item.startswith('.') and the spelling of root_dir are computed.         *)
(* Spec is the rollout, FairSpec the rollout with its threads scheduled,   *)
(* ServerSpec the request handler under every 'security' section, and      *)
(* FixerSpec the link fixer fix_404s.py.                                   *)
(***************************************************************************)
EXTENDS Integers, Sequences, FiniteSets, TLC

\* ------------------------------------------------------------------ names
BACKUP_DIR == <<"d", "e", "p", "l", "o", "y", "_", "b", "a", "c", "k", "u", "p", "s">>
WWW_DIR == <<"w", "w", "w">>
DotSlashWww == <<".", "/", "w", "w", "w">>
DotGit == <<".", "g", "i", "t">>
DotVscode == <<".", "v", "s", "c", "o", "d", "e">>
PyCache == <<"_", "_", "p", "y", "c", "a", "c", "h", "e", "_", "_">>
DeployLog == <<"d", "e", "p", "l", "o", "y", ".", "l", "o", "g">>
DeployPy == <<"d", "e", "p", "l", "o", "y", ".", "p", "y">>
DeployConfig == <<"d", "e", "p", "l", "o", "y", "_", "c", "o", "n", "f", "i", "g", ".", "j", "s", "o", "n">>
DeployPs1 == <<"d", "e", "p", "l", "o", "y", "_", "t", "o", "_", "g", "i", "t", "h", "u", "b", ".", "p", "s", "1">>
MirrorPy == <<"m", "i", "r", "r", "o", "r", "_", "s", "c", "r", "i", "p", "t", ".", "p", "y">>
SummonPs1 == <<"s", "u", "m", "m", "o", "n", "_", "d", "e", "m", "o", "n", ".", "p", "s", "1">>
DotEnv == <<".", "e", "n", "v">>
IndexHtml == <<"i", "n", "d", "e", "x", ".", "h", "t", "m", "l">>
Docs == <<"d", "o", "c", "s">>
OldTxt == <<"o", "l", "d", ".", "t", "x", "t">>
ACss == <<"a", ".", "c", "s", "s">>
BCss == <<"b", ".", "c", "s", "s">>
BackupPrefix == <<"b", "a", "c", "k", "u", "p", "_">>

\* Python's None for backup_path and for the server handle; `if backup_path:`
\* is the truth value of a string, false exactly for the empty one.
None == <<>>
Truthy(s) == s # <<>>

\* ------------------------------------------------------------------ bounds
MaxRetries == 3
MaxClock == 2
MaxTicks == 1

\* ------------------------------------------------------------------ paths
\* A path string is a sequence of characters; the operating system resolves
\* it to a sequence of components, dropping "." and empty components.
RECURSIVE SplitPath(_, _, _)
SplitPath(s, cur, acc) ==
  IF s = <<>> THEN (IF cur = <<>> THEN acc ELSE Append(acc, cur))
  ELSE IF Head(s) = "/"
       THEN SplitPath(Tail(s), <<>>, IF cur = <<>> THEN acc ELSE Append(acc, cur))
       ELSE SplitPath(Tail(s), Append(cur, Head(s)), acc)

IsDotComponent(c) == c = <<".">>

Resolve(s) == SelectSeq(SplitPath(s, <<>>, <<>>), LAMBDA c : ~IsDotComponent(c))

\* os.path.join(a, b) for a relative b
PathJoin(a, b) ==
  IF a = <<>> THEN b
  ELSE IF a[Len(a)] = "/" THEN a \o b ELSE a \o <<"/">> \o b

\* str.startswith('.')
StartsWithDot(item) == Len(item) > 0 /\ item[1] = "."

\* ------------------------------------------------------------------ file tree
\* A node is [path, kind, ver]: kind is "file" or "dir"; ver identifies a
\* file's bytes (0 is a truncated, half-written file) and is 0 for a directory.
FileNode(p, v) == [path |-> p, kind |-> "file", ver |-> v]
DirNode(p) == [path |-> p, kind |-> "dir", ver |-> 0]

IsPrefix(p, q) == Len(p) <= Len(q) /\ SubSeq(q, 1, Len(p)) = p

Under(t, p) == {n \in t : IsPrefix(p, n.path)}

PathExists(t, p) == p = <<>> \/ \E n \in t : n.path = p

PathIsDir(t, p) == p = <<>> \/ \E n \in t : n.path = p /\ n.kind = "dir"

\* os.listdir(p)
ListDir(t, p) ==
  {n.path[Len(p) + 1] : n \in {m \in t : IsPrefix(p, m.path) /\ Len(m.path) = Len(p) + 1}}

Rebase(n, src, dst) ==
  [n EXCEPT !.path = dst \o SubSeq(n.path, Len(src) + 1, Len(n.path))]

\* the tree below p, with paths relative to p (the directory's contents)
Contents(t, p) == {Rebase(n, p, <<>>) : n \in {m \in Under(t, p) : m.path # p}}

\* shutil.rmtree(p)
RmTree(t, p) == t \ Under(t, p)

\* the nodes shutil.copytree(src, dst) creates: the directory dst and a copy
\* of every node below src, listed before dst is created
CopyTreeNodes(t, src, dst) ==
  {DirNode(dst)} \cup {Rebase(n, src, dst) : n \in {m \in Under(t, src) : m.path # src}}

Basename(p) == p[Len(p)]

\* shutil.copy2(src, dst): into dst when dst is a directory, else onto dst
Copy2Target(t, src, dst) == IF PathIsDir(t, dst) THEN Append(dst, Basename(src)) ELSE dst

Copy2(t, src, dst) ==
  LET tgt == Copy2Target(t, src, dst)
      v == (CHOOSE n \in t : n.path = src).ver
  IN (t \ {n \in t : n.path = tgt}) \cup {FileNode(tgt, v)}

Truncate(n) == [n EXCEPT !.ver = 0]

\* the nodes of `nodes` at or below the entry of dst named by node e
EntryOf(nodes, dst, e) ==
  {n \in nodes : IsPrefix(SubSeq(e.path, 1, Len(dst) + 1), n.path)}

\* What an interrupted copytree can leave at dst: nothing; the directory
\* alone; the directory with every entry but one; or every node with one file
\* truncated.
PartialCopies(nodes, dst) ==
  LET below == nodes \ {DirNode(dst)}
  IN {{}, {DirNode(dst)}}
     \cup {nodes \ EntryOf(nodes, dst, e) : e \in below}
     \cup {(nodes \ {f}) \cup {Truncate(f)} : f \in {n \in below : n.kind = "file"}}

\* What an interrupted rmtree can leave of the nodes at and below p: all of
\* them, the directory alone, or all but one entry.
PartialRemovals(nodes, p) ==
  LET below == nodes \ {DirNode(p)}
  IN {nodes, {DirNode(p)}} \cup {nodes \ EntryOf(nodes, p, e) : e \in below}

\* ------------------------------------------------------------------ state
VARIABLES
  fs,            \* the working directory: a set of nodes
  pc,            \* position of main()
  root_dir,      \* config['server']['root_dir'] as spelled in the config
  backup_path,   \* main's backup_path: None or the snapshot's path string
  todo,          \* deploy_files: the items of os.listdir('.') still to visit
  httpd,         \* the handle start_server returned: "none" or "bound"
  serve_thread,  \* "none", "running" (serve_forever, between requests),
                 \* "handling" (in a request) or "stopped"
  port_in_use,   \* another process accepts connections on the probed address
  retries,       \* health_check's local retries (-1 before health_check runs)
  endpoint,      \* health_check's endpoint path string
  attempts,      \* requests health_check has issued
  sleeps,        \* time.sleep(1) calls health_check has made
  exit_code,     \* -1 while the process runs, then the exit status
  fs0,           \* history: the working directory before the run
  copied,        \* history: items deploy_files began to copy
  trace,         \* history: the stage events of main, in order
  bind_calls,    \* history: TCPServer constructions (socket bind attempts)
  rollback_calls, \* history: calls of rollback
  ticks,         \* time.sleep(1) calls of main's idle loop
  security,      \* config['security'] as the request handler reads it
  responses,     \* history: what each requests.get of health_check got
  sent,          \* the response the serve thread is sending (NoResponse: none)
  fx             \* the link fixer fix_404s.py: its files and its position

vars == <<fs, pc, root_dir, backup_path, todo, httpd, serve_thread, port_in_use,
          retries, endpoint, attempts, sleeps, exit_code, fs0, copied,
          trace, bind_calls, rollback_calls, ticks, security, responses, sent, fx>>

\* the content root as the operating system resolves the configured spelling
RootPath == Resolve(root_dir)

ContentRoot == Contents(fs, RootPath)

\* the content root before the run
PreRoot == Contents(fs0, RootPath)

\* ------------------------------------------------------------------ initial trees
Tooling ==
  {DirNode(<<DotGit>>), FileNode(<<DeployPy>>, 2), FileNode(<<DotEnv>>, 2)}

SourceSites ==
  {a \cup b :
     a \in {{}, {FileNode(<<IndexHtml>>, 2)}},
     b \in {{}, {FileNode(<<Docs>>, 2)},
            {DirNode(<<Docs>>), FileNode(<<Docs, BCss>>, 2)}}}

ServedSites ==
  {{}} \cup
  {a \cup b \cup {FileNode(<<OldTxt>>, 1)} :
     a \in {{}, {FileNode(<<IndexHtml>>, 1)}},
     b \in {{}, {FileNode(<<Docs>>, 1)},
            {DirNode(<<Docs>>), FileNode(<<Docs, ACss>>, 1)}}}

\* the content root before the run: absent, or a directory with a served site
InitialRoots ==
  {{}} \cup {{DirNode(<<WWW_DIR>>)} \cup {Rebase(n, <<>>, <<WWW_DIR>>) : n \in site} :
               site \in ServedSites}

Digits == <<"0", "1", "2", "3", "4", "5", "6", "7", "8", "9">>

\* datetime.now().strftime(...): the second counter, printed
Strftime(t) == <<Digits[t + 1]>>

BackupName(t) == BackupPrefix \o Strftime(t)

\* the backups directory before the run: absent, or holding the snapshot a
\* previous run took in second 1
InitialBackups ==
  {{}, {DirNode(<<BACKUP_DIR>>), DirNode(<<BACKUP_DIR, BackupName(1)>>),
        FileNode(<<BACKUP_DIR, BackupName(1), IndexHtml>>, 1)}}

RootDirSpellings == {WWW_DIR, DotSlashWww}

\* config['security']: the key may be missing, or lack 'headers'; the headers
\* are the items of the JSON object, in order
NoSecurity == [present |-> FALSE, has_headers |-> FALSE, headers |-> <<>>]

SecurityConfigs ==
  {NoSecurity,
   [present |-> TRUE, has_headers |-> FALSE, headers |-> <<>>],
   [present |-> TRUE, has_headers |-> TRUE, headers |-> <<>>],
   [present |-> TRUE, has_headers |-> TRUE,
    headers |-> <<<<"X-Frame-Options", "DENY">>,
                  <<"X-Content-Type-Options", "nosniff">>>>]}

\* the link fixer is another program; it does not run in a rollout
FixerOff == [pos |-> "off"]

\* the working directories a run starts in
InitialTrees ==
  {Tooling \cup src \cup root \cup bk :
     src \in SourceSites, root \in InitialRoots, bk \in InitialBackups}

\* the rollout is followed under a configuration without a 'security'
\* section; the request handler under every configuration is ServerSpec
Init ==
  /\ fs \in InitialTrees
  /\ root_dir \in RootDirSpellings
  /\ pc = "load_config"
  /\ backup_path = None
  /\ todo = <<>>
  /\ httpd = "none"
  /\ serve_thread = "none"
  /\ port_in_use = FALSE
  /\ retries = -1
  /\ endpoint = <<>>
  /\ attempts = 0
  /\ sleeps = 0
  /\ exit_code = -1
  /\ fs0 = fs
  /\ copied = {}
  /\ trace = <<>>
  /\ bind_calls = 0
  /\ rollback_calls = 0
  /\ ticks = 0
  /\ security = NoSecurity
  /\ responses = <<>>
  /\ sent = [status |-> 0, headers |-> <<>>]
  /\ fx = FixerOff

\* ------------------------------------------------------------------ helpers
Log(ev) == trace' = Append(trace, ev)

Log2(ev1, ev2) == trace' = trace \o <<ev1, ev2>>

\* sys.exit(code), or an uncaught exception (status 1): the process ends, its
\* daemon serve thread and its listening socket with it
ProcessExit(code) ==
  /\ pc' = "exited"
  /\ exit_code' = code
  /\ httpd' = "none"
  /\ serve_thread' = IF serve_thread = "none" THEN "none" ELSE "stopped"

\* ------------------------------------------------------------------ main: 1-3
\* load_config: returns the configuration, or exits with status 1 when the
\* file is missing or is not JSON; check_dependencies changes nothing here.
LoadConfig ==
  /\ pc = "load_config"
  /\ \E readable \in BOOLEAN :
       IF readable
       THEN /\ pc' = "setup"
            /\ UNCHANGED <<exit_code, httpd, serve_thread, trace>>
       ELSE /\ ProcessExit(1)
            /\ Log("exit")
  /\ UNCHANGED <<fs, root_dir, backup_path, todo, port_in_use, retries,
                 endpoint, attempts, sleeps, fs0, copied, bind_calls,
                 rollback_calls, ticks, security, responses, sent, fx>>

MakeDirs(t, p) == IF PathExists(t, p) THEN t ELSE t \cup {DirNode(p)}

SetupEnvironment ==
  /\ pc = "setup"
  /\ fs' = MakeDirs(MakeDirs(fs, RootPath), <<BACKUP_DIR>>)
  /\ pc' = "backup"
  /\ UNCHANGED <<root_dir, backup_path, todo, httpd, serve_thread,
                 port_in_use, retries, endpoint, attempts, sleeps, exit_code,
                 fs0, copied, trace, bind_calls, rollback_calls, ticks,
                 security, responses, sent, fx>>

\* ------------------------------------------------------------------ main: 4
\* a capture that does not look for entries
NeedsBackupIfExists(t, rd) == PathExists(t, Resolve(rd))

\* os.path.exists(root_dir) and os.listdir(root_dir)
NeedsBackup(t, rd) == PathExists(t, Resolve(rd)) /\ ListDir(t, Resolve(rd)) # {}

BackupPath(now) == PathJoin(BACKUP_DIR, BackupName(now))

\* a capture that replaces the snapshot of the same name
BackupOutcomesOverwrite(t, rd, now) ==
  IF NeedsBackup(t, rd)
  THEN LET dst == Resolve(BackupPath(now))
       IN {[raised |-> FALSE, path |-> BackupPath(now),
            fs |-> (t \ Under(t, dst)) \cup CopyTreeNodes(t, Resolve(rd), dst)]}
  ELSE {[raised |-> FALSE, path |-> None, fs |-> t]}

\* backup_current_version: the outcomes of the call, each a record
\* [raised, path, fs]; shutil.copytree raises when the target exists, and
\* an I/O error leaves a partial copy behind.
BackupOutcomes(t, rd, now) ==
  IF NeedsBackup(t, rd)
  THEN LET dst == Resolve(BackupPath(now))
           nodes == CopyTreeNodes(t, Resolve(rd), dst)
       IN IF PathExists(t, dst)
          THEN {[raised |-> TRUE, path |-> None, fs |-> t]}
          ELSE {[raised |-> FALSE, path |-> BackupPath(now), fs |-> t \cup nodes]}
               \cup {[raised |-> TRUE, path |-> None, fs |-> t \cup part] :
                       part \in PartialCopies(nodes, dst)}
  ELSE {[raised |-> FALSE, path |-> None, fs |-> t]}

BackupCurrentVersion ==
  /\ pc = "backup"
  /\ \E now \in 1..MaxClock : \E r \in BackupOutcomes(fs, root_dir, now) :
       /\ fs' = r.fs
       /\ backup_path' = r.path
       /\ IF r.raised
          THEN ProcessExit(1) /\ Log2("capture_raise", "exit")
          ELSE /\ pc' = "deploy"
               /\ Log("capture")
               /\ UNCHANGED <<exit_code, httpd, serve_thread>>
  /\ UNCHANGED <<root_dir, todo, port_in_use, retries, endpoint, attempts,
                 sleeps, fs0, copied, bind_calls, rollback_calls, ticks,
                 security, responses, sent, fx>>

\* ------------------------------------------------------------------ main: 5
\* deploy_files: the exclusion list, built from root_dir as it is spelled
Excludes(rd) ==
  {rd, BACKUP_DIR, DotGit, DotVscode, PyCache, DeployLog, DeployPy,
   DeployConfig, DeployPs1, MirrorPy, SummonPs1}

\* a test that forgets the hidden entries
SkippedListOnly(item, rd) == item \in Excludes(rd)

\* `item in excludes or item.startswith('.')`
Skipped(item, rd) == item \in Excludes(rd) \/ StartsWithDot(item)

\* os.listdir gives the names in an order the platform chooses
ListingOrders ==
  {<<DotGit, DeployPy, DotEnv, WWW_DIR, BACKUP_DIR, IndexHtml, Docs>>,
   <<Docs, IndexHtml, BACKUP_DIR, WWW_DIR, DotEnv, DeployPy, DotGit>>}

Listings(names) == {SelectSeq(o, LAMBDA n : n \in names) : o \in ListingOrders}

\* `if os.path.exists(dst): shutil.rmtree(dst)`: rmtree raises on a path that
\* is not a directory, and an I/O error leaves part of the tree
RemoveOutcomes(t, dst) ==
  IF ~PathExists(t, dst) THEN {[raised |-> FALSE, fs |-> t]}
  ELSE IF ~PathIsDir(t, dst) THEN {[raised |-> TRUE, fs |-> t]}
  ELSE {[raised |-> FALSE, fs |-> RmTree(t, dst)]}
       \cup {[raised |-> TRUE, fs |-> RmTree(t, dst) \cup part] :
               part \in PartialRemovals(Under(t, dst), dst)}

\* shutil.copytree(src, dst) on a dst that does not exist
CopyTreeOutcomes(t, src, dst) ==
  LET nodes == CopyTreeNodes(t, src, dst)
  IN {[raised |-> FALSE, fs |-> t \cup nodes]}
     \cup {[raised |-> TRUE, fs |-> t \cup part] : part \in PartialCopies(nodes, dst)}

\* shutil.copy2(src, dst): an I/O error leaves the target untouched or truncated
Copy2Outcomes(t, src, dst) ==
  LET tgt == Copy2Target(t, src, dst)
  IN {[raised |-> FALSE, fs |-> Copy2(t, src, dst)],
      [raised |-> TRUE, fs |-> t],
      [raised |-> TRUE, fs |-> (t \ {n \in t : n.path = tgt}) \cup {FileNode(tgt, 0)}]}

\* the body of the loop for an item that is not skipped
CopyItemOutcomes(t, rd, item) ==
  LET src == Resolve(item)
      dst == Resolve(PathJoin(rd, item))
  IN IF PathIsDir(t, src)
     THEN UNION {IF r.raised THEN {r} ELSE CopyTreeOutcomes(r.fs, src, dst) :
                   r \in RemoveOutcomes(t, dst)}
     ELSE Copy2Outcomes(t, src, dst)

\* a handler that exits without restoring
AfterDeployFailureNoRollback(bp) == "exit1"

\* main's handler of a deploy_files exception
AfterDeployFailure(bp) == IF Truthy(bp) THEN "rollback_rm" ELSE "exit1"

DeployBegin ==
  /\ pc = "deploy"
  /\ todo' \in Listings(ListDir(fs, <<>>))
  /\ pc' = "deploy_loop"
  /\ Log("publish_call")
  /\ UNCHANGED <<fs, root_dir, backup_path, httpd, serve_thread, port_in_use,
                 retries, endpoint, attempts, sleeps, exit_code, fs0, copied,
                 bind_calls, rollback_calls, ticks, security, responses, sent, fx>>

DeploySkip ==
  /\ pc = "deploy_loop"
  /\ todo # <<>>
  /\ Skipped(Head(todo), root_dir)
  /\ todo' = Tail(todo)
  /\ UNCHANGED <<fs, pc, root_dir, backup_path, httpd, serve_thread,
                 port_in_use, retries, endpoint, attempts, sleeps, exit_code,
                 fs0, copied, trace, bind_calls, rollback_calls, ticks,
                 security, responses, sent, fx>>

DeployCopy ==
  /\ pc = "deploy_loop"
  /\ todo # <<>>
  /\ ~Skipped(Head(todo), root_dir)
  /\ copied' = copied \cup {Head(todo)}
  /\ \E r \in CopyItemOutcomes(fs, root_dir, Head(todo)) :
       /\ fs' = r.fs
       /\ IF r.raised
          THEN /\ pc' = AfterDeployFailure(backup_path)
               /\ rollback_calls' = rollback_calls + (IF pc' = "rollback_rm" THEN 1 ELSE 0)
               /\ Log("publish_raise")
               /\ UNCHANGED todo
          ELSE /\ todo' = Tail(todo)
               /\ UNCHANGED <<pc, trace, rollback_calls>>
  /\ UNCHANGED <<root_dir, backup_path, httpd, serve_thread, port_in_use,
                 retries, endpoint, attempts, sleeps, exit_code, fs0,
                 bind_calls, ticks, security, responses, sent, fx>>

\* deploy_files returning while items of the listing are still to be visited
DeployDoneEarly ==
  /\ pc = "deploy_loop"
  /\ pc' = "start"
  /\ Log("publish_ret")
  /\ UNCHANGED <<fs, root_dir, backup_path, todo, httpd, serve_thread,
                 port_in_use, retries, endpoint, attempts, sleeps, exit_code,
                 fs0, copied, bind_calls, rollback_calls, ticks, security,
                 responses, sent, fx>>

DeployDone ==
  /\ pc = "deploy_loop"
  /\ todo = <<>>
  /\ pc' = "start"
  /\ Log("publish_ret")
  /\ UNCHANGED <<fs, root_dir, backup_path, todo, httpd, serve_thread,
                 port_in_use, retries, endpoint, attempts, sleeps, exit_code,
                 fs0, copied, bind_calls, rollback_calls, ticks, security,
                 responses, sent, fx>>

\* ------------------------------------------------------------------ rollback
\* a rollback that copies the snapshot over the content root it did not remove
RollbackRmOutcomesKeep(t, rd, bp) ==
  {[fs |-> t, next |-> IF ~Truthy(bp) THEN "exit1" ELSE "rollback_cp",
    ev |-> <<"restore_rm">>]}

\* rollback(backup_path, config) up to and including shutil.rmtree: with no
\* backup path it returns at once; an exception is logged and swallowed, and
\* rollback returns.  Each outcome is [fs, next, ev].
RollbackNoop(bp) == ~Truthy(bp)

RollbackRmOutcomes(t, rd, bp) ==
  IF RollbackNoop(bp)
  THEN {[fs |-> t, next |-> "exit1", ev |-> <<>>]}
  ELSE {[fs |-> r.fs,
         next |-> IF r.raised THEN "exit1" ELSE "rollback_cp",
         ev |-> IF r.raised THEN <<"restore_rm_raise">> ELSE <<"restore_rm">>] :
          r \in (IF PathExists(t, Resolve(rd))
                 THEN RemoveOutcomes(t, Resolve(rd))
                 ELSE {[raised |-> FALSE, fs |-> t]})}

RollbackRmtree ==
  /\ pc = "rollback_rm"
  /\ \E r \in RollbackRmOutcomes(fs, root_dir, backup_path) :
       /\ fs' = r.fs
       /\ pc' = r.next
       /\ trace' = trace \o r.ev
  /\ UNCHANGED <<root_dir, backup_path, todo, httpd, serve_thread,
                 port_in_use, retries, endpoint, attempts, sleeps, exit_code,
                 fs0, copied, bind_calls, rollback_calls, ticks, security,
                 responses, sent, fx>>

RollbackCopytree ==
  /\ pc = "rollback_cp"
  /\ \E r \in CopyTreeOutcomes(fs, Resolve(backup_path), RootPath) :
       /\ fs' = r.fs
       /\ Log(IF r.raised THEN "restore_cp_raise" ELSE "restore_cp")
  /\ pc' = "exit1"
  /\ UNCHANGED <<root_dir, backup_path, todo, httpd, serve_thread,
                 port_in_use, retries, endpoint, attempts, sleeps, exit_code,
                 fs0, copied, bind_calls, rollback_calls, ticks, security,
                 responses, sent, fx>>

\* the failure exit reporting success
SysExit1Zero ==
  /\ pc = "exit1"
  /\ ProcessExit(0)
  /\ Log("exit")
  /\ UNCHANGED <<fs, root_dir, backup_path, todo, port_in_use, retries,
                 endpoint, attempts, sleeps, fs0, copied, bind_calls,
                 rollback_calls, ticks, security, responses, sent, fx>>

SysExit1 ==
  /\ pc = "exit1"
  /\ ProcessExit(1)
  /\ Log("exit")
  /\ UNCHANGED <<fs, root_dir, backup_path, todo, port_in_use, retries,
                 endpoint, attempts, sleeps, fs0, copied, bind_calls,
                 rollback_calls, ticks, security, responses, sent, fx>>

\* ------------------------------------------------------------------ main: 6
Hosts == {"0.0.0.0", "127.0.0.1"}

\* a probe of the configured host as it is
ProbeHostSame(h) == h

\* the address start_server probes: loopback when the host is the wildcard
ProbeHost(h) == IF h = "0.0.0.0" THEN "127.0.0.1" ELSE h

\* s.connect_ex((probe host, port)) == 0: somebody accepts connections there
ConnectExIsZero(h, inUse) == inUse /\ ProbeHost(h) = "127.0.0.1"

\* start_server: [handle, binds]: the probe answers, or TCPServer binds and
\* the serve thread starts, or the constructor raises and None is returned
StartOutcomes(h, inUse) ==
  IF ConnectExIsZero(h, inUse)
  THEN {[handle |-> "none", binds |-> 0]}
  ELSE {[handle |-> "bound", binds |-> 1], [handle |-> "none", binds |-> 1]}

\* `if not server:` in main: exit without a rollback
AfterStartFailure(bp) == "exit1"

StartServer ==
  /\ pc = "start"
  /\ \E h \in Hosts, inUse \in BOOLEAN : \E r \in StartOutcomes(h, inUse) :
       /\ port_in_use' = inUse
       /\ httpd' = r.handle
       /\ bind_calls' = bind_calls + r.binds
       /\ IF r.handle = "bound"
          THEN /\ serve_thread' = "running"
               /\ pc' = "health"
               /\ Log2("start_call", "start_ret")
               /\ UNCHANGED rollback_calls
          ELSE /\ serve_thread' = serve_thread
               /\ pc' = AfterStartFailure(backup_path)
               /\ rollback_calls' = rollback_calls + (IF pc' = "rollback_rm" THEN 1 ELSE 0)
               /\ Log2("start_call", "start_none")
  /\ UNCHANGED <<fs, root_dir, backup_path, todo, retries, endpoint, attempts,
                 sleeps, exit_code, fs0, copied, ticks, security, responses,
                 sent, fx>>

\* ------------------------------------------------------------------ main: 7
SlashPath == <<"/">>
IndexPath == <<"/">> \o IndexHtml

Endpoints == {SlashPath, IndexPath}

\* SimpleHTTPRequestHandler on the directory root_dir: a file is served, a
\* directory is served by its index.html or listed, anything else is 404
ServedStatus(t, rd, ep) ==
  IF PathExists(t, Resolve(rd)) /\ PathExists(t, Resolve(PathJoin(rd, ep)))
  THEN 200 ELSE 404

\* the header lines SimpleHTTPRequestHandler sends before end_headers
DefaultHeaders(status) ==
  <<<<"Server", "SimpleHTTP">>, <<"Content-type", "text/html">>>>

\* an end_headers that sends the first configured item only
EndHeadersFirstOnly(sec, lines) ==
  IF sec.present /\ sec.has_headers /\ sec.headers # <<>>
  THEN Append(lines, Head(sec.headers))
  ELSE lines

\* SecureHTTPRequestHandler.end_headers: one send_header per configured item,
\* after the lines already sent; it runs for every response, errors included
EndHeaders(sec, lines) ==
  IF sec.present
  THEN lines \o (IF sec.has_headers THEN sec.headers ELSE <<>>)
  ELSE lines

\* the response of the server to GET ep
Respond(t, rd, ep, sec) ==
  LET status == ServedStatus(t, rd, ep)
  IN [status |-> status, headers |-> EndHeaders(sec, DefaultHeaders(status))]

\* requests.get raised (timeout, connection refused): there is no response
NoResponse == [status |-> 0, headers |-> <<>>]

\* one `requests.get`, as [got, thread, sent]: the idle serve thread answers;
\* or the request raises without reaching the server; or it times out while
\* the serve thread is still sending its answer.  A busy or absent serve
\* thread gives no answer.
AttemptOutcomes(t, rd, ep, thread, sec, out) ==
  {[got |-> NoResponse, thread |-> thread, sent |-> out]}
  \cup (IF thread = "running"
        THEN {[got |-> Respond(t, rd, ep, sec), thread |-> "running",
               sent |-> out],
              [got |-> NoResponse, thread |-> "handling",
               sent |-> Respond(t, rd, ep, sec)]}
        ELSE {})

\* main after health_check returned False: shutdown, then the guarded rollback
AfterHealthFailure(bp) == IF Truthy(bp) THEN "rollback_rm" ELSE "exit1"

HealthCheckBegin ==
  /\ pc = "health"
  /\ retries' \in 0..MaxRetries
  /\ endpoint' \in Endpoints
  /\ pc' = "health_loop"
  /\ Log("check_call")
  /\ UNCHANGED <<fs, root_dir, backup_path, todo, httpd, serve_thread,
                 port_in_use, attempts, sleeps, exit_code, fs0, copied,
                 bind_calls, rollback_calls, ticks, security, responses, sent, fx>>

\* a check that takes any answer of the server for a pass
IsSuccessAnyAnswer(got) == got.status # 0

\* `response.status_code == 200`
IsSuccess(got) == got.status = 200

\* the time.sleep(1) calls that follow an attempt that did not return
SleepsAfterFailure == 1

\* one iteration of `for i in range(retries)`, the sleep included
HealthAttempt ==
  /\ pc = "health_loop"
  /\ attempts < retries
  /\ attempts' = attempts + 1
  /\ \E r \in AttemptOutcomes(fs, root_dir, endpoint, serve_thread, security,
                             sent) :
       /\ responses' = Append(responses, r.got)
       /\ serve_thread' = r.thread
       /\ sent' = r.sent
       /\ IF IsSuccess(r.got)
          THEN /\ pc' = "idle"
               /\ Log2("request", "check_true")
               /\ UNCHANGED sleeps
          ELSE /\ sleeps' = sleeps + SleepsAfterFailure
               /\ Log("request")
               /\ UNCHANGED pc
  /\ UNCHANGED <<fs, root_dir, backup_path, todo, httpd, port_in_use, retries,
                 endpoint, exit_code, fs0, copied, bind_calls, rollback_calls,
                 ticks, security, fx>>

\* the paths other clients ask for
RequestPaths == Endpoints \cup {<<"/">> \o OldTxt}

\* a request of another client reaches the idle serve thread; serve_forever
\* takes no new request once shutdown() has been called
ClientRequest ==
  /\ serve_thread = "running"
  /\ pc \notin {"shutdown", "interrupted", "exited"}
  /\ \E path \in RequestPaths : sent' = Respond(fs, root_dir, path, security)
  /\ serve_thread' = "handling"
  /\ UNCHANGED <<fs, pc, root_dir, backup_path, todo, httpd, port_in_use,
                 retries, endpoint, attempts, sleeps, exit_code, fs0, copied,
                 trace, bind_calls, rollback_calls, ticks, security,
                 responses, fx>>

\* the serve thread finishes the request it was handling
ServerFinishRequest ==
  /\ serve_thread = "handling"
  /\ serve_thread' = "running"
  /\ sent' = NoResponse
  /\ UNCHANGED <<fs, pc, root_dir, backup_path, todo, httpd, port_in_use,
                 retries, endpoint, attempts, sleeps, exit_code, fs0, copied,
                 trace, bind_calls, rollback_calls, ticks, security,
                 responses, fx>>

\* main rolling back while the server still runs
HealthCheckFailedNoStop ==
  /\ pc = "health_loop"
  /\ attempts >= retries
  /\ pc' = "rollback_rm"
  /\ Log("check_false")
  /\ UNCHANGED <<fs, root_dir, backup_path, todo, httpd, serve_thread,
                 port_in_use, retries, endpoint, attempts, sleeps, exit_code,
                 fs0, copied, bind_calls, rollback_calls, ticks, security,
                 responses, sent, fx>>

\* the loop is exhausted: health_check returns False
HealthCheckFailed ==
  /\ pc = "health_loop"
  /\ attempts >= retries
  /\ pc' = "shutdown"
  /\ Log("check_false")
  /\ UNCHANGED <<fs, root_dir, backup_path, todo, httpd, serve_thread,
                 port_in_use, retries, endpoint, attempts, sleeps, exit_code,
                 fs0, copied, bind_calls, rollback_calls, ticks, security,
                 responses, sent, fx>>

\* a shutdown() that does not wait for the request in flight
ShutdownReturnsAtOnce(thread) == thread \in {"running", "handling"}

\* server.shutdown() waits for serve_forever to leave its loop, which it does
\* between requests
ShutdownReturns(thread) == thread = "running"

\* server.shutdown() on the failure path; the socket stays open (no
\* server_close)
ShutdownAfterFailure ==
  /\ pc = "shutdown"
  /\ ShutdownReturns(serve_thread)
  /\ serve_thread' = "stopped"
  /\ pc' = AfterHealthFailure(backup_path)
  /\ rollback_calls' = rollback_calls + (IF pc' = "rollback_rm" THEN 1 ELSE 0)
  /\ Log("stop")
  /\ UNCHANGED <<fs, root_dir, backup_path, todo, httpd, port_in_use, retries,
                 endpoint, attempts, sleeps, exit_code, fs0, copied,
                 bind_calls, ticks, security, responses, sent, fx>>

\* ------------------------------------------------------------------ main: idle
IdleSleep ==
  /\ pc = "idle"
  /\ ticks < MaxTicks
  /\ ticks' = ticks + 1
  /\ UNCHANGED <<fs, pc, root_dir, backup_path, todo, httpd, serve_thread,
                 port_in_use, retries, endpoint, attempts, sleeps, exit_code,
                 fs0, copied, trace, bind_calls, rollback_calls, security,
                 responses, sent, fx>>

\* KeyboardInterrupt raised in the idle loop; the handler calls
\* server.shutdown()
Interrupt ==
  /\ pc = "idle"
  /\ pc' = "interrupted"
  /\ Log("interrupt")
  /\ UNCHANGED <<fs, root_dir, backup_path, todo, httpd, serve_thread,
                 port_in_use, retries, endpoint, attempts, sleeps, exit_code,
                 fs0, copied, bind_calls, rollback_calls, ticks, security,
                 responses, sent, fx>>

\* an interrupt handler that exits without stopping the server
ExitWithoutShutdown ==
  /\ pc = "interrupted"
  /\ ProcessExit(0)
  /\ Log("exit")
  /\ UNCHANGED <<fs, root_dir, backup_path, todo, port_in_use, retries,
                 endpoint, attempts, sleeps, fs0, copied, bind_calls,
                 rollback_calls, ticks, security, responses, sent, fx>>

\* server.shutdown() returns; sys.exit(0)
ShutdownAndExit0 ==
  /\ pc = "interrupted"
  /\ ShutdownReturns(serve_thread)
  /\ ProcessExit(0)
  /\ Log2("stop", "exit")
  /\ UNCHANGED <<fs, root_dir, backup_path, todo, port_in_use, retries,
                 endpoint, attempts, sleeps, fs0, copied, bind_calls,
                 rollback_calls, ticks, security, responses, sent, fx>>

\* ------------------------------------------------------------------ program
Next ==
  \/ LoadConfig
  \/ SetupEnvironment
  \/ BackupCurrentVersion
  \/ DeployBegin
  \/ DeploySkip
  \/ DeployCopy
  \/ DeployDone
  \/ RollbackRmtree
  \/ RollbackCopytree
  \/ SysExit1
  \/ StartServer
  \/ HealthCheckBegin
  \/ HealthAttempt
  \/ HealthCheckFailed
  \/ ShutdownAfterFailure
  \/ ClientRequest
  \/ ServerFinishRequest
  \/ IdleSleep
  \/ Interrupt
  \/ ShutdownAndExit0

Spec == Init /\ [][Next]_vars

\* ------------------------------------------------------------------ server
\* the request handler alone: a bound server over any working directory and
\* any 'security' section, answering the requests of its clients
ServerInit ==
  /\ fs \in InitialTrees
  /\ root_dir \in RootDirSpellings
  /\ security \in SecurityConfigs
  /\ pc = "serving"
  /\ httpd = "bound"
  /\ serve_thread = "running"
  /\ sent = NoResponse
  /\ backup_path = None
  /\ todo = <<>>
  /\ port_in_use = FALSE
  /\ retries = -1
  /\ endpoint = <<>>
  /\ attempts = 0
  /\ sleeps = 0
  /\ exit_code = -1
  /\ fs0 = fs
  /\ copied = {}
  /\ trace = <<>>
  /\ bind_calls = 1
  /\ rollback_calls = 0
  /\ ticks = 0
  /\ responses = <<>>
  /\ fx = FixerOff

ServerNext ==
  \/ ClientRequest
  \/ ServerFinishRequest

ServerSpec == ServerInit /\ [][ServerNext]_vars

\* ------------------------------------------------------------------ fix_404s.py
\* The link fixer is a program of its own: it walks a tree, reads the
\* references (href, src, content) of each document and checks where they
\* point.  The file system is case-sensitive.  URLs are relative ones
\* without escapes, query or fragment, in documents at the top of the tree.
MaxDocs == 2
MaxRefs == 2

Uppers == <<"A", "B", "C", "D", "E", "F", "G", "H", "I", "J", "K", "L", "M",
            "N", "O", "P", "Q", "R", "S", "T", "U", "V", "W", "X", "Y", "Z">>
Lowers == <<"a", "b", "c", "d", "e", "f", "g", "h", "i", "j", "k", "l", "m",
            "n", "o", "p", "q", "r", "s", "t", "u", "v", "w", "x", "y", "z">>

\* str.lower()
LowerChar(c) ==
  IF \E i \in 1..Len(Uppers) : Uppers[i] = c
  THEN Lowers[CHOOSE i \in 1..Len(Uppers) : Uppers[i] = c]
  ELSE c

Lower(str) == [i \in 1..Len(str) |-> LowerChar(str[i])]

StartsWith(str, prefix) ==
  Len(prefix) <= Len(str) /\ SubSeq(str, 1, Len(prefix)) = prefix

\* str.replace(old, new) for a non-empty old: every occurrence, left to right
RECURSIVE Replace(_, _, _)
Replace(str, old, new) ==
  IF Len(str) < Len(old) THEN str
  ELSE IF StartsWith(str, old)
       THEN new \o Replace(SubSeq(str, Len(old) + 1, Len(str)), old, new)
       ELSE <<Head(str)>> \o Replace(Tail(str), old, new)

\* the prefixes resolve_path ignores
IgnoredPrefixes ==
  {<<"h", "t", "t", "p", ":">>, <<"h", "t", "t", "p", "s", ":">>,
   <<"m", "a", "i", "l", "t", "o", ":">>, <<"t", "e", "l", ":">>, <<"#">>,
   <<"j", "a", "v", "a", "s", "c", "r", "i", "p", "t", ":">>,
   <<"d", "a", "t", "a", ":">>}

\* `if not url: continue`, and resolve_path returning None
Ignored(url) ==
  url = <<>> \/ \E prefix \in IgnoredPrefixes : StartsWith(url, prefix)

\* resolve_path: the components of the target, from the top of the tree
TargetPath(url) == Resolve(url)

PathIsFile(t, p) == \E n \in t : n.path = p /\ n.kind = "file"

\* lines 98-106: the target is neither a file nor a directory with index.html
Broken(t, url) ==
  LET target == TargetPath(url)
  IN /\ target # <<>>
     /\ ~PathIsFile(t, target)
     /\ ~(PathIsDir(t, target) /\ PathExists(t, Append(target, IndexHtml)))

TargetDir(url) == SubSeq(TargetPath(url), 1, Len(TargetPath(url)) - 1)
TargetFile(url) == Basename(TargetPath(url))

\* the values files_map can hold for target_file.lower(): the names of the
\* target directory that lower to it (os.listdir orders them as it likes)
RealNames(t, url) ==
  IF PathExists(t, TargetDir(url))
  THEN {f \in ListDir(t, TargetDir(url)) : Lower(f) = Lower(TargetFile(url))}
  ELSE {}

\* `if not dry_run:` at line 120
AppliesFix(dry_run) == ~dry_run

\* the loop body for one tag, as the records [url, now, fixed]: the attribute
\* read, the attribute afterwards, and whether line 123 assigned it
TagOutcomes(t, url, dry_run) ==
  IF Ignored(url) \/ ~Broken(t, url)
     \/ RealNames(t, url) = {} \/ ~AppliesFix(dry_run)
  THEN {[url |-> url, now |-> url, fixed |-> FALSE]}
  ELSE {[url |-> url, now |-> Replace(url, TargetFile(url), real_name),
         fixed |-> TRUE] : real_name \in RealNames(t, url)}

\* a fixer that saves every document it checked in fix mode
ShouldSaveInFixMode(modified, dry_run) == ~dry_run

\* `if modified and not dry_run:` at line 131
ShouldSave(modified, dry_run) == modified /\ ~dry_run

\* sys.argv[1:]
Argvs == {<<>>, <<"--fix">>, <<"--dry-run">>}

\* main, lines 142-148
DryRunOf(argv) == ~(Len(argv) > 0 /\ argv[1] = "--fix")

\* the documents of the tree
DocName(k) == <<Digits[k + 1], ".", "h", "t", "m", "l">>

DocNodes == {FileNode(<<DocName(k)>>, 1) : k \in 1..MaxDocs}

FixerTrees ==
  {{},
   {FileNode(<<<<"a">>>>, 1), FileNode(<<<<"p">>>>, 1), DirNode(<<<<"d">>>>),
    FileNode(<<<<"d">>, <<"a">>>>, 1)},
   {FileNode(<<<<"a">>>>, 1), FileNode(<<<<"A">>>>, 1), DirNode(<<<<"d">>>>),
    FileNode(<<<<"d">>, IndexHtml>>, 1), FileNode(<<<<"d">>, <<"a">>>>, 1)}}

\* the references the documents may hold
Urls ==
  {<<"A">>, <<"p">>, <<"q">>, <<"#", "t">>, <<"d">>, <<"d", "/", "A">>,
   <<"D", "/", "a">>}

FixerInit ==
  /\ \E tree \in FixerTrees : fs = tree \cup DocNodes
  /\ fx = [pos |-> "argv", dry_run |-> TRUE, doc |-> 0, refs |-> <<>>,
           modified |-> FALSE, wrote |-> FALSE, writes |-> 0]
  /\ pc = "fixer"
  /\ root_dir = <<>>
  /\ security = NoSecurity
  /\ httpd = "none"
  /\ serve_thread = "none"
  /\ sent = NoResponse
  /\ backup_path = None
  /\ todo = <<>>
  /\ port_in_use = FALSE
  /\ retries = -1
  /\ endpoint = <<>>
  /\ attempts = 0
  /\ sleeps = 0
  /\ exit_code = -1
  /\ fs0 = fs
  /\ copied = {}
  /\ trace = <<>>
  /\ bind_calls = 0
  /\ rollback_calls = 0
  /\ ticks = 0
  /\ responses = <<>>

\* main reads its arguments: DRY_RUN stays True without --fix
FixerMain ==
  /\ fx.pos = "argv"
  /\ \E argv \in Argvs :
       fx' = [fx EXCEPT !.pos = "walk", !.dry_run = DryRunOf(argv)]
  /\ UNCHANGED <<pc, root_dir, backup_path, todo, httpd, serve_thread,
                 port_in_use, retries, endpoint, attempts, sleeps, exit_code,
                 fs0, copied, trace, bind_calls, rollback_calls, ticks,
                 security, responses, sent, fs>>

\* os.walk yields the next document; check_and_fix_file reads and parses it
FixerOpen ==
  /\ fx.pos = "walk"
  /\ fx.doc < MaxDocs
  /\ fx' = [fx EXCEPT !.pos = "tags", !.doc = fx.doc + 1, !.refs = <<>>,
                      !.modified = FALSE, !.wrote = FALSE]
  /\ UNCHANGED <<pc, root_dir, backup_path, todo, httpd, serve_thread,
                 port_in_use, retries, endpoint, attempts, sleeps, exit_code,
                 fs0, copied, trace, bind_calls, rollback_calls, ticks,
                 security, responses, sent, fs>>

\* the loop body of lines 80-129 for the next tag of the document
FixerCheckTag ==
  /\ fx.pos = "tags"
  /\ Len(fx.refs) < MaxRefs
  /\ \E url \in Urls : \E r \in TagOutcomes(fs, url, fx.dry_run) :
       fx' = [fx EXCEPT !.refs = Append(fx.refs, r),
                        !.modified = fx.modified \/ r.fixed]
  /\ UNCHANGED <<pc, root_dir, backup_path, todo, httpd, serve_thread,
                 port_in_use, retries, endpoint, attempts, sleeps, exit_code,
                 fs0, copied, trace, bind_calls, rollback_calls, ticks,
                 security, responses, sent, fs>>

\* lines 131-139: the document is written back, or not, and
\* check_and_fix_file returns; an exception of the write is caught
FixerSave ==
  /\ fx.pos = "tags"
  /\ IF ShouldSave(fx.modified, fx.dry_run)
     THEN \E written \in BOOLEAN :
            /\ fs' = IF written
                     THEN (fs \ {FileNode(<<DocName(fx.doc)>>, 1)})
                            \cup {FileNode(<<DocName(fx.doc)>>, 2)}
                     ELSE fs
            /\ fx' = [fx EXCEPT !.pos = "walk", !.wrote = written,
                                !.writes = fx.writes + (IF written THEN 1 ELSE 0)]
     ELSE /\ fs' = fs
          /\ fx' = [fx EXCEPT !.pos = "walk"]
  /\ UNCHANGED <<pc, root_dir, backup_path, todo, httpd, serve_thread,
                 port_in_use, retries, endpoint, attempts, sleeps, exit_code,
                 fs0, copied, trace, bind_calls, rollback_calls, ticks,
                 security, responses, sent>>

\* os.walk is exhausted: main prints its totals
FixerDone ==
  /\ fx.pos = "walk"
  /\ fx' = [fx EXCEPT !.pos = "done"]
  /\ UNCHANGED <<pc, root_dir, backup_path, todo, httpd, serve_thread,
                 port_in_use, retries, endpoint, attempts, sleeps, exit_code,
                 fs0, copied, trace, bind_calls, rollback_calls, ticks,
                 security, responses, sent, fs>>

FixerNext ==
  \/ FixerMain
  \/ FixerOpen
  \/ FixerCheckTag
  \/ FixerSave
  \/ FixerDone

FixerSpec == FixerInit /\ [][FixerNext]_vars

\* main and the serve thread are scheduled: a shutdown() that can return
\* returns, and a request being handled is finished
FairSpec ==
  Spec /\ WF_vars(ShutdownAndExit0) /\ WF_vars(ServerFinishRequest)

TypeOK ==
  /\ pc \in {"load_config", "setup", "backup", "deploy", "deploy_loop",
             "rollback_rm", "rollback_cp", "exit1", "start", "health",
             "health_loop", "shutdown", "idle", "interrupted", "exited"}
  /\ exit_code \in {-1, 0, 1}
  /\ httpd \in {"none", "bound"}
  /\ serve_thread \in {"none", "running", "handling", "stopped"}
  /\ fx = FixerOff
  /\ security = NoSecurity

\* ------------------------------------------------------------------ trace helpers
Has(ev) == \E i \in 1..Len(trace) : trace[i] = ev

\* every occurrence of ev in the trace has an occurrence of one of `befores`
\* earlier in the trace
Precedes(befores, ev) ==
  \A i \in 1..Len(trace) :
    trace[i] = ev => \E j \in 1..(i - 1) : trace[j] \in befores

IsSeqPrefix(a, b) == Len(a) <= Len(b) /\ SubSeq(b, 1, Len(a)) = a

StageOrder ==
  <<"capture", "publish_call", "publish_ret", "start_call", "start_ret",
    "check_call", "check_true">>

StageEvents == {StageOrder[i] : i \in 1..Len(StageOrder)}

Stages == SelectSeq(trace, LAMBDA ev : ev \in StageEvents)

\* ------------------------------------------------------------------ C1
\* C1: the stages of main run in the order Backup, Publish, Serve, Verify.
\* The stage events of every run are a prefix of capture, publish call,
\* publish return, start call, start return, check call, check true (none
\* skipped, none repeated); when start is called publish has visited every
\* item of its listing; a health-check request is issued only after start
\* returned a handle, with the listener bound and the serve thread running;
\* and a Committed run has gone through all of them.
C1_StageOrder ==
  /\ IsSeqPrefix(Stages, StageOrder)
  /\ Has("start_call") => todo = <<>>
  /\ Precedes({"start_ret"}, "request")
  /\ pc = "health_loop" =>
       httpd = "bound" /\ serve_thread \in {"running", "handling"}
  /\ pc = "idle" => Stages = StageOrder

\* a Committed run whose health check needed a second request, after a
\* publish that copied something over a captured snapshot
C1_Witness ==
  /\ pc = "idle"
  /\ attempts = 2
  /\ Truthy(backup_path)
  /\ copied # {}

\* ------------------------------------------------------------------ C2
RestoreEvents == {"restore_rm", "restore_rm_raise", "restore_cp", "restore_cp_raise"}

RestoreRaised == Has("restore_rm_raise") \/ Has("restore_cp_raise")

RestoreRan == \E i \in 1..Len(trace) : trace[i] \in RestoreEvents

\* the content root is what it was before the run
RootIsPreRoot == PathExists(fs, RootPath) /\ ContentRoot = PreRoot

C3_StartFailureRestores ==
  (pc = "exited" /\ Has("start_none")) =>
     /\ exit_code = 1
     /\ Truthy(backup_path) => RestoreRan /\ RootIsPreRoot

\* ------------------------------------------------------------------ C4
\* C4: when the health check returned false, the server is stopped before
\* restore touches the content root, and restore comes before the exit: every
\* restore event follows the stop, the serve thread is stopped while rollback
\* runs, and at exit (status 1) the stop has happened and, with a snapshot,
\* the restore has run.
C4_StopThenRestoreThenExit ==
  Has("check_false") =>
     /\ \A ev \in RestoreEvents : Precedes({"stop"}, ev)
     /\ pc \in {"rollback_rm", "rollback_cp"} => serve_thread = "stopped"
     /\ Precedes({"stop"}, "exit")
     /\ Truthy(backup_path) => Precedes(RestoreEvents, "exit")
     /\ pc = "exited" => exit_code = 1 /\ rollback_calls = (IF Truthy(backup_path) THEN 1 ELSE 0)

\* the health check failed over a captured snapshot, the server was stopped,
\* the snapshot restored, and the process has exited
C4_Witness ==
  /\ pc = "exited"
  /\ Has("check_false")
  /\ attempts = 2
  /\ Truthy(backup_path)
  /\ Has("restore_cp")

\* ------------------------------------------------------------------ C5
FailureEvents == {"publish_raise", "start_none", "check_false"}

Failed == \E i \in 1..Len(trace) : trace[i] \in FailureEvents

\* C5: the exit status reflects the result: status 0 only after the health
\* check passed and the idle loop was interrupted; a run in which publish
\* raised, start returned no handle or the check returned false never reaches
\* the idle loop and exits with status 1, never 0.
C5_ExitCodeReflectsResult ==
  /\ exit_code = 0 =>
       /\ Has("check_true")
       /\ ~Failed
       /\ Len(trace) >= 2
       /\ SubSeq(trace, Len(trace) - 1, Len(trace)) = <<"stop", "exit">>
  /\ Failed =>
       /\ pc \in {"shutdown", "rollback_rm", "rollback_cp", "exit1", "exited"}
       /\ exit_code # 0
       /\ pc = "exited" => exit_code = 1
  /\ pc = "exited" <=> exit_code # -1

\* both kinds of run have ended: here a failed start
C5_Witness ==
  /\ pc = "exited"
  /\ exit_code = 1
  /\ Has("start_none")
  /\ copied # {}

\* ------------------------------------------------------------------ C6
\* rollback has been called and has returned
RollbackReturned == rollback_calls = 1 /\ pc \in {"exit1", "exited"}

C7_NoSnapshotNoRestore ==
  /\ Has("capture") =>
       (Truthy(backup_path) <=>
          (PathExists(fs0, RootPath) /\ ListDir(fs0, RootPath) # {}))
  /\ (Has("capture") /\ ~Truthy(backup_path)) =>
       Contents(fs, <<BACKUP_DIR>>) = Contents(fs0, <<BACKUP_DIR>>)
  /\ ~Truthy(backup_path) => rollback_calls = 0 /\ ~RestoreRan
  /\ RollbackRmOutcomes(fs, root_dir, None) = {[fs |-> fs, next |-> "exit1", ev |-> <<>>]}

\* the content root existed and was empty, nothing was captured, the health
\* check failed after a publish, and the process exited without a restore
C7_Witness ==
  /\ pc = "exited"
  /\ Has("check_false")
  /\ ~Truthy(backup_path)
  /\ PathExists(fs0, RootPath)
  /\ copied # {}
  /\ rollback_calls = 0

\* ------------------------------------------------------------------ C8
Forbidden(item) == item \in Excludes(root_dir) \/ StartsWithDot(item)

\* C8: publish never begins to copy an entry whose name is in the exclude
\* list or begins with '.', and no entry of such a name appears in the content
\* root, also when publish aborts part-way.
C8_NeverCopiesExcluded ==
  /\ \A item \in copied : ~Forbidden(item)
  /\ \A item \in ListDir(fs, RootPath) :
       Forbidden(item) => item \in ListDir(fs0, RootPath)

\* publish raised on its second entry, next to a source tree that holds
\* excluded and hidden entries
C8_Witness ==
  /\ Has("publish_raise")
  /\ Cardinality(copied) = 2
  /\ {DotGit, DeployPy, DotEnv} \subseteq ListDir(fs, <<>>)

\* ------------------------------------------------------------------ C9
\* the entry at path p, with paths relative to p
EntryTree(t, p) == {Rebase(n, p, <<>>) : n \in Under(t, p)}

\* C9 as stated: after a publish that completed, every source entry that is
\* neither excluded nor hidden has an equal entry of its name in the content
\* root, and every other entry of the content root is as it was before.
C9_PublishReplacesAndFrames ==
  (Has("publish_ret") /\ ~RestoreRan) =>
     /\ \A item \in ListDir(fs, <<>>) :
          ~Forbidden(item) =>
             EntryTree(fs, Append(RootPath, item)) = EntryTree(fs, <<item>>)
     /\ \A item \in ListDir(fs, RootPath) \cup ListDir(fs0, RootPath) :
          ~(item \in ListDir(fs, <<>>) /\ ~Forbidden(item)) =>
             EntryTree(fs, Append(RootPath, item)) = EntryTree(fs0, Append(RootPath, item))

Successes == {i \in 1..Len(responses) : responses[i].status = 200}

\* C11: health_check returns True exactly when one of its at most `retries`
\* attempts observed status 200, and it stops there: no attempt follows a
\* 200, the attempts made are the index of the first 200 when it returned
\* True and `retries` when it returned False, it never returns both, and an
\* attempt that raised or got another status leaves main inside the check
\* (the process exits only after the check has returned).
C11_CheckContract ==
  /\ Len(responses) = attempts
  /\ Has("check_call") => attempts <= retries
  /\ \A i \in Successes : i = Len(responses)
  /\ Has("check_true") <=> Successes # {}
  /\ Has("check_true") => attempts \in Successes
  /\ Has("check_false") => attempts = retries /\ Successes = {}
  /\ Has("request") /\ pc \notin {"health_loop"} =>
       Has("check_true") \/ Has("check_false")

\* retries = 3, the first attempt raised, the second got 200: True after
\* exactly two attempts
C11_Witness ==
  /\ retries = 3
  /\ Len(responses) = 2
  /\ responses[1].status = 0
  /\ responses[2].status = 200
  /\ attempts = 2
  /\ Has("check_true")
  /\ pc = "idle"

\* ------------------------------------------------------------------ C12
\* C12: when copytree raised inside rollback, after rmtree had removed the
\* content root, rollback does not return normally to main: main is never at
\* the statement that follows the call of rollback (the sys.exit(1) it also
\* reaches after a restore that succeeded).
C12_RestoreCopyFailureEscalated ==
  Has("restore_cp_raise") => pc # "exit1"

\* ------------------------------------------------------------------ C13
\* how often an event occurs in the trace
Count(ev) == Cardinality({i \in 1..Len(trace) : trace[i] = ev})

\* after health_check returned True: no rollback, one publish, and until the
\* interrupt the idle loop over a bound, serving server; at the exit the
\* server was stopped just before and the status is 0
TerminalSuccess ==
  Has("check_true") =>
     /\ rollback_calls = 0
     /\ \A ev \in RestoreEvents : ~Has(ev)
     /\ Count("publish_call") = 1
     /\ pc \in {"idle", "interrupted", "exited"}
     /\ ~Has("interrupt") =>
          /\ pc = "idle"
          /\ httpd = "bound"
          /\ serve_thread \in {"running", "handling"}
     /\ pc = "interrupted" => Has("interrupt") /\ ~Has("stop")
     /\ pc = "exited" =>
          /\ exit_code = 0
          /\ serve_thread = "stopped"
          /\ Len(trace) >= 3
          /\ SubSeq(trace, Len(trace) - 2, Len(trace))
               = <<"interrupt", "stop", "exit">>

\* C13: once health_check has returned True the rollout stays in terminal
\* success (TerminalSuccess in every state, and no step changes the working
\* directory); an interrupt of the idle loop leads to the server stopped and
\* the process exited with status 0.
C13_TerminalSuccessThenCleanExit ==
  /\ []TerminalSuccess
  /\ [][Has("check_true") => fs' = fs]_vars
  /\ Has("interrupt") ~> (pc = "exited" /\ exit_code = 0 /\ Has("stop"))

\* the idle loop was interrupted while the serve thread was handling a
\* request of another client
C13_Witness ==
  /\ pc = "interrupted"
  /\ serve_thread = "handling"
  /\ ticks = 1
  /\ Has("check_true")

\* ------------------------------------------------------------------ C14
\* the header lines of a response that have the given name
LinesNamed(resp, name) ==
  {i \in 1..Len(resp.headers) : resp.headers[i][1] = name}

\* the response carries each item of the mapping, with its value on every
\* line of that name, and nothing but the handler's own lines otherwise
CarriesExactly(resp, mapping) ==
  /\ \A k \in 1..Len(mapping) :
       /\ LinesNamed(resp, mapping[k][1]) # {}
       /\ \A i \in LinesNamed(resp, mapping[k][1]) :
            resp.headers[i][2] = mapping[k][2]
  /\ Len(resp.headers) = Len(DefaultHeaders(resp.status)) + Len(mapping)
  /\ SubSeq(resp.headers, 1, Len(DefaultHeaders(resp.status)))
       = DefaultHeaders(resp.status)

\* C14: every response the server sends, 200 or 404 and for each request
\* path, carries each header of config['security']['headers'] with its
\* configured value; with the section or the mapping missing or empty it
\* carries the handler's own header lines and no other.
C14_SecurityHeadersOnEveryResponse ==
  serve_thread = "handling" =>
     /\ sent.status \in {200, 404}
     /\ (security.present /\ security.has_headers)
          => CarriesExactly(sent, security.headers)
     /\ ~(security.present /\ security.has_headers)
          => CarriesExactly(sent, <<>>)

\* a 404 being sent under a configuration of two header entries
C14_Witness ==
  /\ pc = "serving"
  /\ serve_thread = "handling"
  /\ sent.status = 404
  /\ Len(security.headers) = 2
  /\ security.headers[1] # security.headers[2]

\* ------------------------------------------------------------------ C15
\* no call of the run raised: not capture, publish, restore, the construction
\* of the server on a free port, nor a request of the health check
NoIOError ==
  /\ ~Has("capture_raise")
  /\ ~Has("publish_raise")
  /\ ~RestoreRaised
  /\ Has("start_none") => port_in_use
  /\ \A i \in 1..Len(responses) : responses[i].status # 0

\* a top-level entry the rollout is to publish: not in the exclude list, not
\* hidden, and not the content root itself
Eligible(item) == ~Forbidden(item) /\ <<item>> # RootPath

\* the snapshots present in a tree
Snapshots(t) == Contents(t, <<BACKUP_DIR>>)

\* C15 as stated: with the port free, no I/O error and index.html in the
\* published content root, start returns a handle, / and /index.html are
\* served with 200, the health check against / does not fail, no rollback is
\* called and the process does not exit with a failure; from an empty content
\* root no snapshot is made and the entries copied are the eligible ones.
C15_HappyPathCommits ==
  (/\ Has("publish_ret")
   /\ ~port_in_use
   /\ NoIOError
   /\ PathExists(fs, Append(RootPath, IndexHtml))) =>
     /\ ~Has("start_none")
     /\ Has("start_ret") =>
          /\ ServedStatus(fs, root_dir, SlashPath) = 200
          /\ ServedStatus(fs, root_dir, IndexPath) = 200
     /\ endpoint \in {<<>>, SlashPath} =>
          /\ ~Has("check_false")
          /\ rollback_calls = 0
          /\ exit_code \in {-1, 0}
     /\ PreRoot = {} =>
          /\ ~Truthy(backup_path)
          /\ Snapshots(fs) = Snapshots(fs0)
          /\ copied = {item \in ListDir(fs0, <<>>) : Eligible(item)}

\* ------------------------------------------------------------------ C16
\* C16: when backup_current_version raised (copytree met an I/O error or a
\* snapshot of that second's name), the process is at its exit with status 1
\* and nothing else ran: no publish, start, check or restore event and no
\* call of rollback, nothing copied, the content root as before the run; and
\* in every state every snapshot that existed before the run is still there
\* unchanged.
C16_CaptureFailureIsFatal ==
  /\ Has("capture_raise") =>
       /\ pc = "exited"
       /\ exit_code = 1
       /\ trace = <<"capture_raise", "exit">>
       /\ rollback_calls = 0
       /\ bind_calls = 0
       /\ copied = {}
       /\ responses = <<>>
       /\ ~Truthy(backup_path)
       /\ Under(fs, RootPath) = Under(fs0, RootPath)
  /\ Snapshots(fs0) \subseteq Snapshots(fs)

\* capture raised next to a snapshot of an earlier run, over a content root
\* that holds files
C16_Witness ==
  /\ Has("capture_raise")
  /\ pc = "exited"
  /\ Snapshots(fs0) # {}
  /\ Snapshots(fs) = Snapshots(fs0)
  /\ PreRoot # {}

\* ------------------------------------------------------------------ C17
\* C17 as stated: health_check sleeps only between attempts: after a 200
\* the sleeps are the failed attempts before it, and when all `retries`
\* attempts failed and False is returned the sleeps are retries - 1.
C17_WaitsOnlyBetweenAttempts ==
  /\ Has("check_true") => sleeps = attempts - 1
  /\ (Has("check_false") /\ retries >= 1) => sleeps = retries - 1

\* ------------------------------------------------------------------ C18
\* the target directory of the reference holds a name equal to the target
\* name up to case
HasCaseMatch(t, url) ==
  /\ PathExists(t, TargetDir(url))
  /\ \E f \in ListDir(t, TargetDir(url)) : Lower(f) = Lower(TargetFile(url))

\* C18: in a dry run (no --fix) no file of the tree is ever written and no
\* attribute assigned; in fix mode an attribute is assigned only for a broken
\* reference whose target directory holds a case-insensitive match of the
\* target name (and then it is), every other attribute keeps its value, and
\* a document is written only after one of its attributes was assigned; only
\* documents are ever written.
C18_FixerWritesOnlyFixes ==
  /\ fx.dry_run => fs = fs0 /\ fx.writes = 0 /\ ~fx.wrote /\ ~fx.modified
  /\ \A k \in 1..Len(fx.refs) :
       LET r == fx.refs[k]
           fixable == ~Ignored(r.url) /\ Broken(fs0, r.url) /\ HasCaseMatch(fs0, r.url)
       IN /\ r.fixed => ~fx.dry_run /\ fixable
          /\ (fixable /\ ~fx.dry_run) => r.fixed
          /\ ~r.fixed => r.now = r.url
  /\ fx.wrote => \E k \in 1..Len(fx.refs) : fx.refs[k].fixed
  /\ fx.writes = Cardinality(fs \ fs0)
  /\ \A n \in fs \ fs0 :
       \E k \in 1..fx.doc : n = FileNode(<<DocName(k)>>, 2)
  /\ {n.path : n \in fs} = {n.path : n \in fs0}

\* fix mode: a document with one reference rewritten to the name on disk and
\* one broken reference without a match left alone was written
C18_Witness ==
  /\ fx.pos = "walk"
  /\ ~fx.dry_run
  /\ fx.wrote
  /\ Len(fx.refs) = 2
  /\ fx.refs[1].fixed
  /\ fx.refs[1].now # fx.refs[1].url
  /\ ~fx.refs[2].fixed
  /\ Broken(fs, fx.refs[2].url)

\* ------------------------------------------------------------------ C19
\* the serve thread is in serve_forever: waiting for a request or handling one
Serving == serve_thread \in {"running", "handling"}

\* while main is inside deploy_files or rollback nothing is being served, and
\* the server is started only after publish returned
PublishRestoreNotServing ==
  /\ pc \in {"deploy", "deploy_loop", "rollback_rm", "rollback_cp"} => ~Serving
  /\ Has("start_call") => Precedes({"publish_ret"}, "start_call")
  /\ (Has("start_ret") /\ RestoreRan) =>
       \A ev \in RestoreEvents : Precedes({"stop"}, ev)

\* C19: the content root is never modified while the serve thread runs its
\* loop or handles a request: publish has returned before the serve thread
\* is started, no step that changes the working directory starts or ends in
\* a serving state, and shutdown() returns (the stop is logged) only from a
\* state in which the serve thread is between requests.
C19_NoModificationWhileServing ==
  /\ []PublishRestoreNotServing
  /\ [][fs' # fs => (~Serving /\ ~Serving')]_vars
  /\ [][(trace' # trace /\ trace'[Len(trace')] = "stop")
          => serve_thread = "running"]_vars

\* shutdown() of the failure path is waiting for the request in flight, with
\* a snapshot to restore afterwards
C19_Witness ==
  /\ pc = "shutdown"
  /\ serve_thread = "handling"
  /\ Truthy(backup_path)
  /\ Has("check_false")

\* ------------------------------------------------------------------ C20
\* C20 as stated: for each spelling of root_dir that names the top-level
\* directory www, the publish loop skips the entry that is the content root:
\* it never begins to copy it, and the content root never holds a copy of
\* itself.
C20_NeverCopiesContentRoot ==
  /\ \A item \in copied : <<item>> # RootPath
  /\ ~PathExists(fs, RootPath \o RootPath)

====
